---- MODULE Spec2Model ----
(***************************************************************************)
(* Edge centrality measures, ranking utilities and the iterative           *)
(* downdating / updating engine of graph-X (scr/NetworkAnalysis.py,        *)
(* scripts/Tools.py, scripts/EdgeCentralityMeasures.py,                    *)
(* scripts/LineGraph.py).                                                  *)
(*                                                                         *)
(* Weights are real numbers in the program.  Here a weight w is held as    *)
(* the integer w * Unit, so that weights strictly between 0 and 1 exist    *)
(* (Unit = 2: halves) and the program's literal 1 is the integer Unit.     *)
(* Scores are the results of matrix exponentials, singular value and       *)
(* eigen decompositions; they are not computed here: every measure takes   *)
(* its raw n x n score matrix as an argument drawn from ScoreSet, and the  *)
(* masking, flattening, filtering and ranking are done as the code does    *)
(* them.                                                                   *)
(***************************************************************************)
EXTENDS Integers, Sequences, FiniteSets, TLC

\* ------------------------------------------------------------------------
\* Bounds of the model
\* ------------------------------------------------------------------------
\* a weight w of the program is the integer w * Unit
Unit == 2
\* every input matrix has entries that sum to at most MaxSum (in 1/Unit)
MaxSum == 6
\* raw scores are drawn from 1..MaxScore
MaxScore == 2
\* the vectors that are scaled have at most MaxLen entries
MaxLen == 3
\* the tools are applied at most MaxOps times in a row
MaxOps == 2
\* a call of compute_centrality_values that passes its precondition computes
\* at most MaxComputed measures
MaxComputed == 1
\* at most MaxSelected measures are selected for a run
MaxSelected == 2
\* a network that is run has a total edge weight of at most MaxRunSum / Unit
MaxRunSum == 3
\* the number of iterations asked for is 0 (as many as the weight) .. MaxIter
MaxIter == 2
\* a run on the 4-node cycle tracks at most MaxCycleSelected measures
MaxCycleSelected == 1
\* a run selects among the measures 0 .. MaxMeasure
MaxMeasure == 2
\* a network whose line graph is built has weights of at most
\* MaxLineWeight / Unit
MaxLineWeight == 2
\* a network that is downdated to the end has whole-number weights and a
\* total edge weight of at most MaxAutoWeight
MaxAutoWeight == 3
\* a run that is downdated to the end tracks at most MaxAutoSelected measures
MaxAutoSelected == 2

\* the networks that are drawn have two nodes
Nodes == 0 .. 1
Pos == Nodes \X Nodes
ScoreSet == 1 .. MaxScore

\* adj_matrix.shape[0]
Dim(adj_matrix) == Cardinality({p[1] : p \in DOMAIN adj_matrix})

\* ------------------------------------------------------------------------
\* numpy helpers
\* ------------------------------------------------------------------------
\* the order of ndarray.flatten() and ndarray.nonzero(): row-major
FlatPositions(n) == [k \in 1 .. (n * n) |-> <<(k - 1) \div n, (k - 1) % n>>]

\* the order of np.triu_indices(n): the row-major positions with i <= j
TriuPositions(n) == SelectSeq(FlatPositions(n), LAMBDA p : p[1] <= p[2])

\* np.nan, a value that is no score
NaN == 0

\* x[~np.isnan(x)]
DropNaN(x) == SelectSeq(x, LAMBDA v : v # NaN)

RECURSIVE SumOver(_, _)
SumOver(f, S) ==
    IF S = {} THEN 0
    ELSE LET x == CHOOSE y \in S : TRUE IN f[x] + SumOver(f, S \ {x})

\* np.sum(adj_matrix), in 1/Unit
MatrixSum(A) == SumOver(A, DOMAIN A)

\* scipy.linalg.issymmetric(adj_matrix)
issymmetric(A) == \A p \in DOMAIN A : A[p] = A[<<p[2], p[1]>>]

Range(s) == {s[k] : k \in 1 .. Len(s)}

\* ------------------------------------------------------------------------
\* scripts/Tools.py
\* ------------------------------------------------------------------------
\* np.argsort(x): the index sequences (1-based here) that sort x ascending.
\* The default kind is an unstable quicksort: equal keys come in any order.
RECURSIVE ArgSortFrom(_, _)
ArgSortFrom(x, rest) ==
    IF rest = {} THEN {<<>>}
    ELSE LET least == {i \in rest : \A j \in rest : x[i] <= x[j]}
         IN UNION {{<<i>> \o s : s \in ArgSortFrom(x, rest \ {i})} : i \in least}

argsort(x) == ArgSortFrom(x, DOMAIN x)

\* ranked_data = data.copy(); ranked_data[::-1].sort(): descending values
RECURSIVE SortDescending(_)
SortDescending(data) ==
    IF Len(data) = 0 THEN <<>>
    ELSE LET k == CHOOSE i \in DOMAIN data : \A j \in DOMAIN data : data[i] >= data[j]
             others == [j \in 1 .. (Len(data) - 1) |-> IF j < k THEN data[j] ELSE data[j + 1]]
         IN <<data[k]>> \o SortDescending(others)

\* rank_edges with np.argsort(data) in place of np.argsort(-data): the edges
\* come in ascending order of score
rank_edges_ascending(data, edge_list) ==
    {[ranked_data |-> SortDescending(data),
      ranked_edge_list |-> [k \in DOMAIN sorted_indices |-> edge_list[sorted_indices[k]]]]
       : sorted_indices \in argsort(data)}

\* rank_edges(data, edge_list, measurement): every result the call can return
rank_edges(data, edge_list) ==
    LET ranked_data == SortDescending(data)
        negated == [k \in DOMAIN data |-> 0 - data[k]]
    IN {[ranked_data |-> ranked_data,
         ranked_edge_list |-> [k \in DOMAIN sorted_indices |-> edge_list[sorted_indices[k]]]]
          : sorted_indices \in argsort(negated)}

\* downdate_network without its "if not directed" branches
downdate_network_unmirrored(adj_matrix, edge, directed) ==
    IF adj_matrix[edge] < Unit THEN [adj_matrix EXCEPT ![edge] = 0]
    ELSE [adj_matrix EXCEPT ![edge] = @ - Unit]

\* downdate_network(adj_matrix, edge, directed): the returned copy
downdate_network(adj_matrix, edge, directed) ==
    LET mirror == <<edge[2], edge[1]>>
        zeroed == [adj_matrix EXCEPT ![edge] = 0]
        lowered == [adj_matrix EXCEPT ![edge] = @ - Unit]
    IN IF adj_matrix[edge] < Unit
       THEN IF ~directed THEN [zeroed EXCEPT ![mirror] = 0] ELSE zeroed
       ELSE IF ~directed THEN [lowered EXCEPT ![mirror] = @ - Unit] ELSE lowered

\* update_network without its "if not directed" branch
update_network_unmirrored(adj_matrix, edge, directed) ==
    [adj_matrix EXCEPT ![edge] = @ + Unit]

\* update_network(adj_matrix, edge, directed): the returned copy
update_network(adj_matrix, edge, directed) ==
    LET mirror == <<edge[2], edge[1]>>
        raised == [adj_matrix EXCEPT ![edge] = @ + Unit]
    IN IF ~directed THEN [raised EXCEPT ![mirror] = @ + Unit] ELSE raised

\* max(data) and min(data)
max_value_of(data) == CHOOSE v \in Range(data) : \A w \in Range(data) : v >= w
min_value_of(data) == CHOOSE v \in Range(data) : \A w \in Range(data) : v <= w

\* scale_data without the branch for max_value = min_value
scale_data_always_dividing(data, new_min, new_max) ==
    IF data = <<>> THEN [error |-> "ValueError", data_scaled |-> <<>>]
    ELSE LET max_value == max_value_of(data)
             min_value == min_value_of(data)
         IN [error |-> "none",
             data_scaled |->
                [k \in DOMAIN data |->
                   [dividend |-> (data[k] - min_value) * (new_max - new_min)
                                   + new_min * (max_value - min_value),
                    divisor |-> max_value - min_value]]]

\* scale_data(data, new_min, new_max).  A scaled value is kept as the
\* quotient it is computed as: dividend / divisor, the divisor being
\* max_value - min_value in the first branch and 2 (the factor 0.5) in the
\* second.  max() of an empty sequence raises ValueError.
scale_data(data, new_min, new_max) ==
    IF data = <<>> THEN [error |-> "ValueError", data_scaled |-> <<>>]
    ELSE LET max_value == max_value_of(data)
             min_value == min_value_of(data)
         IN [error |-> "none",
             data_scaled |->
                IF max_value # min_value
                THEN [k \in DOMAIN data |->
                        [dividend |-> (data[k] - min_value) * (new_max - new_min)
                                        + new_min * (max_value - min_value),
                         divisor |-> max_value - min_value]]
                ELSE [k \in DOMAIN data |->
                        [dividend |-> new_max + new_min, divisor |-> 2]]]

\* generate_edge_list without ssp.triu in the undirected branch
generate_edge_list_untriangled(adj_matrix, directed) ==
    SelectSeq(FlatPositions(Dim(adj_matrix)), LAMBDA p : adj_matrix[p] # 0)

\* generate_edge_list(adj_matrix, directed)
generate_edge_list(adj_matrix, directed) ==
    IF directed
    THEN SelectSeq(FlatPositions(Dim(adj_matrix)), LAMBDA p : adj_matrix[p] # 0)
    ELSE SelectSeq(FlatPositions(Dim(adj_matrix)),
                   LAMBDA p : p[1] <= p[2] /\ adj_matrix[p] # 0)

\* connectivity(adj_matrix, directed)[0]: scipy's connected_components with
\* connection='strong'.  Every stored (non-zero) entry is an arc; an
\* undirected call reads each arc both ways.
Arc(adj_matrix, directed, i, j) ==
    \/ adj_matrix[<<i, j>>] # 0
    \/ ~directed /\ adj_matrix[<<j, i>>] # 0

RECURSIVE ReachWithin(_, _, _, _)
ReachWithin(adj_matrix, directed, i, steps) ==
    IF steps = 0 THEN {i}
    ELSE LET near == ReachWithin(adj_matrix, directed, i, steps - 1)
         IN near \cup {j \in 0 .. (Dim(adj_matrix) - 1) :
                          \E h \in near : Arc(adj_matrix, directed, h, j)}

Reach(adj_matrix, directed, i) == ReachWithin(adj_matrix, directed, i, Dim(adj_matrix))

ComponentOf(adj_matrix, directed, i) ==
    {j \in 0 .. (Dim(adj_matrix) - 1) :
        j \in Reach(adj_matrix, directed, i) /\ i \in Reach(adj_matrix, directed, j)}

n_components_of(adj_matrix, directed) ==
    Cardinality({ComponentOf(adj_matrix, directed, i) : i \in 0 .. (Dim(adj_matrix) - 1)})

\* connectivity(adj_matrix, directed)[2]
is_connected(adj_matrix, directed) == n_components_of(adj_matrix, directed) = 1

\* ------------------------------------------------------------------------
\* scripts/LineGraph.py
\* ------------------------------------------------------------------------
\* incidence_matrix(adj_matrix): the edges that get a column, in column order
incidence_matrix_edges(adj_matrix) ==
    SelectSeq(FlatPositions(Dim(adj_matrix)), LAMBDA p : p[1] <= p[2] /\ adj_matrix[p] # 0)

\* incidence_and_exsurgence_matrix(adj_matrix): (tail, head) of each column
incidence_and_exsurgence_edges(adj_matrix) ==
    SelectSeq(FlatPositions(Dim(adj_matrix)), LAMBDA p : adj_matrix[p] # 0)

\* the number of nodes of the line graph, i.e. the size of its adjacency matrix
line_graph_size(adj_matrix, directed) ==
    IF directed THEN Len(incidence_and_exsurgence_edges(adj_matrix))
    ELSE Len(incidence_matrix_edges(adj_matrix))

\* The incidence matrices hold np.sqrt(weight); here an entry holds the
\* weight itself (the square of the entry of the program), 0 for a 0.
\* incidence_matrix(adj_matrix): inc_matrix[edge, i] = np.sqrt(weights[i])
\* sets the rows of both end nodes of the i-th edge
incidence_matrix(adj_matrix) ==
    LET edges == incidence_matrix_edges(adj_matrix)
    IN [c \in (0 .. (Dim(adj_matrix) - 1)) \X DOMAIN edges |->
          IF c[1] \in {edges[c[2]][1], edges[c[2]][2]} THEN adj_matrix[edges[c[2]]] ELSE 0]

\* incidence_and_exsurgence_matrix(adj_matrix)[0]: row head of column i
inc_matrix(adj_matrix) ==
    LET edges == incidence_and_exsurgence_edges(adj_matrix)
    IN [c \in (0 .. (Dim(adj_matrix) - 1)) \X DOMAIN edges |->
          IF c[1] = edges[c[2]][2] THEN adj_matrix[edges[c[2]]] ELSE 0]

\* incidence_and_exsurgence_matrix(adj_matrix)[1]: row tail of column i
exsur_matrix(adj_matrix) ==
    LET edges == incidence_and_exsurgence_edges(adj_matrix)
    IN [c \in (0 .. (Dim(adj_matrix) - 1)) \X DOMAIN edges |->
          IF c[1] = edges[c[2]][1] THEN adj_matrix[edges[c[2]]] ELSE 0]

\* an entry of E that is 0
ZeroEntry == [terms |-> 0, radicand |-> 0]

\* entry (e, f) of X.T @ Y: the sum over the nodes v of X[v,e] * Y[v,f].
\* Every non-zero term is sqrt(w_e) * sqrt(w_f) = sqrt(w_e * w_f); the entry
\* is kept as the number of such terms and the radicand w_e * w_f.
GramEntry(X, Y, n, e, f) ==
    LET nodes == {v \in 0 .. (n - 1) : X[<<v, e>>] # 0 /\ Y[<<v, f>>] # 0}
    IN IF nodes = {} THEN ZeroEntry
       ELSE LET v == CHOOSE u \in nodes : TRUE
            IN [terms |-> Cardinality(nodes), radicand |-> X[<<v, e>>] * Y[<<v, f>>]]

\* line_graph_adj_matrix without the loop that clears the diagonal
line_graph_adj_matrix_uncorrected(adj_matrix) ==
    LET B == incidence_matrix(adj_matrix)
        columns == DOMAIN incidence_matrix_edges(adj_matrix)
    IN [c \in columns \X columns |-> GramEntry(B, B, Dim(adj_matrix), c[1], c[2])]

\* line_graph_adj_matrix(adj_matrix): E = B.T @ B, then E[i,i] = 0
line_graph_adj_matrix(adj_matrix) ==
    LET B == incidence_matrix(adj_matrix)
        columns == DOMAIN incidence_matrix_edges(adj_matrix)
    IN [c \in columns \X columns |->
          IF c[1] = c[2] THEN ZeroEntry
          ELSE GramEntry(B, B, Dim(adj_matrix), c[1], c[2])]

\* line_graph_adj_matrix_directed with the factors swapped: E = B_e.T @ B_i
line_graph_adj_matrix_directed_swapped(adj_matrix) ==
    LET B_i == inc_matrix(adj_matrix)
        B_e == exsur_matrix(adj_matrix)
        columns == DOMAIN incidence_and_exsurgence_edges(adj_matrix)
    IN [c \in columns \X columns |-> GramEntry(B_e, B_i, Dim(adj_matrix), c[1], c[2])]

\* line_graph_adj_matrix_directed(adj_matrix): E = B_i.T @ B_e
line_graph_adj_matrix_directed(adj_matrix) ==
    LET B_i == inc_matrix(adj_matrix)
        B_e == exsur_matrix(adj_matrix)
        columns == DOMAIN incidence_and_exsurgence_edges(adj_matrix)
    IN [c \in columns \X columns |-> GramEntry(B_i, B_e, Dim(adj_matrix), c[1], c[2])]

\* ------------------------------------------------------------------------
\* scripts/EdgeCentralityMeasures.py
\* ------------------------------------------------------------------------
\* np.where(adj_matrix != 0, 1, np.nan)
tmp_adj_matrix_downdating(adj_matrix) ==
    [p \in DOMAIN adj_matrix |-> IF adj_matrix[p] # 0 THEN 1 ELSE NaN]

\* np.where((adj_matrix == 0) & ~np.eye(n, dtype=bool), 1, np.nan)
tmp_adj_matrix_updating(adj_matrix) ==
    [p \in DOMAIN adj_matrix |-> IF adj_matrix[p] = 0 /\ p[1] # p[2] THEN 1 ELSE NaN]

\* np.multiply(scores, mask): NaN wherever the mask is NaN
Masked(scores, mask) ==
    [p \in DOMAIN mask |-> IF mask[p] = NaN THEN NaN ELSE scores[p] * mask[p]]

\* the vectorization that flattens the undirected score matrix as well
Vectorize_flattened(matrix, directed) ==
    LET order == FlatPositions(Dim(matrix))
    IN [k \in DOMAIN order |-> matrix[order[k]]]

\* matrix.flatten() when directed, matrix[np.triu_indices(n)] when not
Vectorize(matrix, directed) ==
    LET order == IF directed THEN FlatPositions(Dim(matrix)) ELSE TriuPositions(Dim(matrix))
    IN [k \in DOMAIN order |-> matrix[order[k]]]

\* the virtual-edge pattern without "& ~np.eye(n, dtype=bool)"
adj_matrix_edge_list_updating_with_diagonal(adj_matrix) ==
    [p \in DOMAIN adj_matrix |-> IF adj_matrix[p] = 0 THEN 1 ELSE 0]

\* np.where((adj_matrix == 0) & ~np.eye(n, dtype=bool), 1, 0)
adj_matrix_edge_list_updating(adj_matrix) ==
    [p \in DOMAIN adj_matrix |-> IF adj_matrix[p] = 0 /\ p[1] # p[2] THEN 1 ELSE 0]

\* The tail shared by the four matrix-valued measures: mask the score matrix
\* with the zero pattern of adj_matrix, vectorize, drop the NaN entries and
\* build the two edge lists.
SplitByPattern(adj_matrix, directed, score_matrix) ==
    [scores_d |-> DropNaN(Vectorize(Masked(score_matrix, tmp_adj_matrix_downdating(adj_matrix)), directed)),
     scores_u |-> DropNaN(Vectorize(Masked(score_matrix, tmp_adj_matrix_updating(adj_matrix)), directed)),
     edges_d |-> generate_edge_list(adj_matrix, directed),
     edges_u |-> generate_edge_list(adj_matrix_edge_list_updating(adj_matrix), directed)]

\* edge_total_communicability_centrality(adj_matrix, directed); raw is
\* edge_total_comm_centr, the outer product of the communicability sums
edge_total_communicability_centrality(adj_matrix, directed, raw) ==
    SplitByPattern(adj_matrix, directed, raw)

\* edge_line_graph_centrality(adj_matrix, directed); raw is the vector of
\* sums over exp(adj_matrix_line_graph), one entry per line-graph node
edge_line_graph_centrality(adj_matrix, directed, raw) ==
    [scores_d |-> raw,
     edges_d |-> generate_edge_list(adj_matrix, directed)]

\* total_network_sensitivity_schweitzer(adj_matrix, directed); raw is the
\* Frechet derivative of the exponential in the all-ones direction
total_network_sensitivity_schweitzer(adj_matrix, directed, raw) ==
    SplitByPattern(adj_matrix, directed, raw)

\* perron_root_sensitivity(adj_matrix, directed); raw is
\* perron_root_sensitivity_matrix
perron_root_sensitivity(adj_matrix, directed, raw) ==
    SplitByPattern(adj_matrix, directed, raw)

\* perron_network_sensitivity(adj_matrix, directed); raw is
\* perron_network_sensitivity_matrix
perron_network_sensitivity(adj_matrix, directed, raw) ==
    SplitByPattern(adj_matrix, directed, raw)

\* ------------------------------------------------------------------------
\* scripts/EdgeCentralityMeasures.py: how the sensitivity measures fill
\* their score matrix.  The numbers are not computed: an entry of a score
\* matrix names the matrix entry whose sensitivity it is and the factor the
\* code multiplies it with.
\* ------------------------------------------------------------------------
SensitivityMeasures ==
    {"total_network_sensitivity", "perron_root_sensitivity", "perron_network_sensitivity"}

\* the measures whose score matrix is filled by the loop over i and j
LoopMeasures == {"total_network_sensitivity", "perron_network_sensitivity"}

\* the measures that regularize a reducible matrix
PerronMeasures == {"perron_root_sensitivity", "perron_network_sensitivity"}

\* an entry that holds np.nan
SensNaN == [defined |-> FALSE, entry |-> <<0, 0>>, factor |-> 0]

\* np.full((n, n), np.nan)
FullNaN(adj_matrix) == [p \in DOMAIN adj_matrix |-> SensNaN]

\* the matrix a measure decomposes: every entry is the weight of adj_matrix
\* plus deltas times the constant delta = 0.00001
PlusDelta(adj_matrix, deltas) ==
    [p \in DOMAIN adj_matrix |-> [weight |-> adj_matrix[p], deltas |-> deltas]]

\* lines 184-189 and 252-257: A = adj_matrix + delta * np.ones(...) if the
\* network is not (strongly) connected, adj_matrix otherwise; the total
\* network sensitivity takes adj_matrix as it is
decomposed_matrix(measure, adj_matrix, directed) ==
    IF measure \in PerronMeasures /\ ~is_connected(adj_matrix, directed)
    THEN PlusDelta(adj_matrix, 1)
    ELSE PlusDelta(adj_matrix, 0)

\* the factor (1 + directed) of lines 141-142 and 266-267
sensitivity_factor(directed) == IF directed THEN 2 ELSE 1

\* line 195: entry (i,j) is left(i) * right(j) / (left . right)
perron_root_sensitivity_matrix(adj_matrix) ==
    [p \in DOMAIN adj_matrix |-> [defined |-> TRUE, entry |-> p, factor |-> 1]]

\* lines 139-143 and 263-268: the body of the loop for (i,j) = p.  The value
\* obtained with E[i,j] = 1 is written to [i,j] and then to [j,i].
perturb_entry(score_matrix, p, directed) ==
    LET value == [defined |-> TRUE, entry |-> p, factor |-> sensitivity_factor(directed)]
        direct == [score_matrix EXCEPT ![p] = value]
    IN [direct EXCEPT ![<<p[2], p[1]>>] = value]

\* the split by the zero pattern of the decomposed matrix A
pattern_matrix_decomposed(adj_matrix, A) ==
    [p \in DOMAIN A |-> A[p].weight + A[p].deltas]

\* lines 145-146, 197-198, 270-271: the matrix whose zero pattern splits the
\* scores is adj_matrix, also when A was regularized
pattern_matrix(adj_matrix, A) == adj_matrix

\* np.multiply(score_matrix, mask) for the score entries of this section
MaskedEntries(score_matrix, mask) ==
    [p \in DOMAIN mask |-> IF mask[p] = NaN THEN SensNaN ELSE score_matrix[p]]

\* x[~np.isnan(x)] for the score entries of this section
DropSensNaN(x) == SelectSeq(x, LAMBDA v : v.defined)

\* the tail of a sensitivity measure (lines 145-165, 197-217, 270-290)
SplitSensitivity(adj_matrix, A, directed, score_matrix) ==
    LET pattern == pattern_matrix(adj_matrix, A)
    IN [scores_d |-> DropSensNaN(Vectorize(MaskedEntries(score_matrix,
                                      tmp_adj_matrix_downdating(pattern)), directed)),
        scores_u |-> DropSensNaN(Vectorize(MaskedEntries(score_matrix,
                                      tmp_adj_matrix_updating(pattern)), directed)),
        edges_d |-> generate_edge_list(pattern, directed),
        edges_u |-> generate_edge_list(adj_matrix_edge_list_updating(pattern), directed)]

\* ------------------------------------------------------------------------
\* scr/NetworkAnalysis.py: compute_centrality_values
\* ------------------------------------------------------------------------
\* class Measures(Enum)
Measures == 0 .. 4
LineGraphMeasure == 1

\* the shape of the raw scores of measure m: one per line-graph node for the
\* line graph centrality, one per matrix position for the others
RawScores(m, adj_matrix, directed) ==
    IF m = LineGraphMeasure
    THEN [1 .. line_graph_size(adj_matrix, directed) -> ScoreSet]
    ELSE [DOMAIN adj_matrix -> ScoreSet]

\* the call of measure m as compute_centrality_values dispatches it
MeasureCall(m, adj_matrix, directed, raw) ==
    CASE m = 0 -> edge_total_communicability_centrality(adj_matrix, directed, raw)
      [] m = 1 -> edge_line_graph_centrality(adj_matrix, directed, raw)
      [] m = 2 -> total_network_sensitivity_schweitzer(adj_matrix, directed, raw)
      [] m = 3 -> perron_root_sensitivity(adj_matrix, directed, raw)
      [] m = 4 -> perron_network_sensitivity(adj_matrix, directed, raw)

\* what the call of measure m can return on adj_matrix, over all raw scores
MeasureResults(m, adj_matrix, directed) ==
    {MeasureCall(m, adj_matrix, directed, raw) : raw \in RawScores(m, adj_matrix, directed)}

\* the four lists before the first block
NoLists ==
    [error |-> "none",
     edge_centralities_d |-> <<>>, edge_centralities_u |-> <<>>,
     ranked_edge_lists_d |-> <<>>, ranked_edge_lists_u |-> <<>>,
     measures_d |-> <<>>, measures_u |-> <<>>]

\* A score vector as the lists of compute_centrality_values keep it: the
\* entries are left unnamed, the vector keeps its length.
Unvalued(scores) == [a \in DOMAIN scores |-> "score"]

\* one "if measure_input[...]" block after the measure returned r: rank the
\* existing and the virtual edges and append to the lists.  measures_d and
\* measures_u record which measure's block appended each entry.
BlockAppend(m, acc, r) ==
    IF m = LineGraphMeasure
    THEN {[acc EXCEPT !.edge_centralities_d = Append(@, Unvalued(r.scores_d)),
                      !.ranked_edge_lists_d = Append(@, rd.ranked_edge_list),
                      !.measures_d = Append(@, m)] :
            rd \in rank_edges(r.scores_d, r.edges_d)}
    ELSE {[acc EXCEPT !.edge_centralities_d = Append(@, Unvalued(r.scores_d)),
                      !.edge_centralities_u = Append(@, Unvalued(r.scores_u)),
                      !.ranked_edge_lists_d = Append(@, rd.ranked_edge_list),
                      !.ranked_edge_lists_u = Append(@, ru.ranked_edge_list),
                      !.measures_d = Append(@, m),
                      !.measures_u = Append(@, m)] :
            rd \in rank_edges(r.scores_d, r.edges_d),
            ru \in rank_edges(r.scores_u, r.edges_u)}

\* the blocks of measures m .. 4, in the order of the code
RECURSIVE BlocksFrom(_, _, _, _, _)
BlocksFrom(m, adj_matrix, measure_input, directed, acc) ==
    IF m > 4 THEN {acc}
    ELSE IF ~measure_input[m] THEN BlocksFrom(m + 1, adj_matrix, measure_input, directed, acc)
    ELSE UNION {BlocksFrom(m + 1, adj_matrix, measure_input, directed, next) :
                  next \in UNION {BlockAppend(m, acc, r) :
                                    r \in MeasureResults(m, adj_matrix, directed)}}

\* the precondition of compute_centrality_values
SymmetryViolated(adj_matrix, directed) == ~directed /\ ~issymmetric(adj_matrix)

\* compute_centrality_values without the check of lines 65-66
compute_centrality_values_unguarded(adj_matrix, measure_input, directed) ==
    BlocksFrom(0, adj_matrix, measure_input, directed, NoLists)

\* compute_centrality_values(adj_matrix, measure_input, directed): every
\* outcome of the call; error = "ValueError" is the raise, and nothing is
\* returned then
compute_centrality_values(adj_matrix, measure_input, directed) ==
    IF SymmetryViolated(adj_matrix, directed)
    THEN {[NoLists EXCEPT !.error = "ValueError"]}
    ELSE BlocksFrom(0, adj_matrix, measure_input, directed, NoLists)

\* ------------------------------------------------------------------------
\* State
\* ------------------------------------------------------------------------
VARIABLES
    \* the ndarray objects by reference: CallerMatrix is the adj_matrix the
    \* caller supplies, every other reference is an array made by a .copy()
    matrix_heap,
    \* the directed flag of the call
    directed,
    \* the calls of downdate_network / update_network made so far
    tool_ops,
    \* the last call of rank_edges: its arguments and what it returned
    rank_call,
    \* the last call of a measure: its raw scores and what it returned
    measure_call,
    \* the call of scale_data: its arguments and what it returned
    scale_call,
    \* the call of a sensitivity measure: the matrix it decomposes, its score
    \* matrix while the loop fills it, and what it returned
    sens_call,
    \* the call of a line-graph construction: the columns (edges) of the
    \* incidence matrix and the adjacency matrix E it returned
    line_call,
    \* the measure_input of compute_centrality_values
    measure_input,
    \* what compute_centrality_values did: not called, returned, raised
    ccv_outcome,
    \* the list objects (the ranked edge lists) by reference
    list_heap,
    \* the arguments of compare_measures
    ranked_edge_lists, selected_measures, downup_options_input, downdating,
    \* for each list passed in, the measure whose ranking it is
    ranked_by,
    \* where compare_measures is: "idle", "call", "loop", "returned", "raised"
    pc,
    \* the exception that ended the call
    error,
    \* the locals of compare_measures
    ranked_edge_lists_copy, adj_matrices_modified, number_of_iterations,
    n_components, iterations_disconnect, total_network_communicabilities_list,
    modified_edges,
    \* the loop variables k and i of compare_measures (i counted from 1)
    loop_k, loop_i

toolVars == <<tool_ops, rank_call, measure_call, scale_call, sens_call,
              line_call>>
ccvVars == <<measure_input, ccv_outcome>>
argVars == <<ranked_edge_lists, selected_measures, downup_options_input, downdating, ranked_by>>
localVars ==
    <<ranked_edge_lists_copy, adj_matrices_modified, number_of_iterations, n_components,
      iterations_disconnect, total_network_communicabilities_list, modified_edges,
      loop_k, loop_i>>
runVars == <<list_heap, argVars, pc, error, localVars>>
vars == <<matrix_heap, directed, toolVars, ccvVars, runVars>>

\* References to objects.  Two names bound to one reference are one object:
\* a write through either is seen through both.
CallerMatrix == <<"caller", 0>>
CallerList(j) == <<"caller", j>>
\* the j-th object made by a copy
Copy(j) == <<"copy", j>>
\* the object the last call made for measure j returned
Returned(j) == <<"returned", j>>

\* the matrix the caller supplied
adj_matrix == matrix_heap[CallerMatrix]

\* the n x n matrices with non-negative weights, listed by their total weight
InputMatrices == {A \in [Pos -> 0 .. MaxSum] : MatrixSum(A) <= MaxSum}

NoRankCall ==
    [called |-> FALSE, data |-> <<>>, edge_list |-> <<>>,
     ranked_data |-> <<>>, ranked_edge_list |-> <<>>]

NoMeasureCall ==
    [called |-> FALSE, measure |-> 0, raw |-> <<>>, scores_d |-> <<>>,
     scores_u |-> <<>>, edges_d |-> <<>>, edges_u |-> <<>>]

NoScaleCall ==
    [called |-> FALSE, data |-> <<>>, new_min |-> 0, new_max |-> 0,
     error |-> "none", data_scaled |-> <<>>]

NoSensCall ==
    [called |-> FALSE, measure |-> "none", A |-> <<>>, score_matrix |-> <<>>, next |-> 0,
     returned |-> FALSE, scores_d |-> <<>>, scores_u |-> <<>>, edges_d |-> <<>>,
     edges_u |-> <<>>]

NoLineCall == [called |-> FALSE, edges |-> <<>>, E |-> <<>>]

NoSelection == [m \in Measures |-> FALSE]

NotCalled == [NoLists EXCEPT !.error = "not called"]

NoOptions == [number_of_iterations |-> 0, greedy |-> FALSE, order |-> "highest"]

\* the locals of compare_measures before the call
NoLocals ==
    /\ ranked_edge_lists_copy = <<>>
    /\ adj_matrices_modified = <<>>
    /\ number_of_iterations = 0
    /\ n_components = <<>>
    /\ iterations_disconnect = <<>>
    /\ total_network_communicabilities_list = <<>>
    /\ modified_edges = <<>>
    /\ loop_k = 0
    /\ loop_i = 0

\* compare_measures is not called
RunIdle ==
    /\ list_heap = <<>>
    /\ ranked_edge_lists = <<>>
    /\ ranked_by = <<>>
    /\ selected_measures = <<>>
    /\ downup_options_input = NoOptions
    /\ downdating = TRUE
    /\ pc = "idle"
    /\ error = "none"
    /\ NoLocals

\* ------------------------------------------------------------------------
\* The tools applied to a supplied matrix
\* ------------------------------------------------------------------------
InitTools ==
    /\ \E A \in InputMatrices : matrix_heap = (CallerMatrix :> A)
    /\ directed \in BOOLEAN
    /\ tool_ops = <<>>
    /\ rank_call = NoRankCall
    /\ measure_call = NoMeasureCall
    /\ scale_call = NoScaleCall
    /\ sens_call = NoSensCall
    /\ line_call = NoLineCall
    /\ measure_input = NoSelection
    /\ ccv_outcome = NotCalled
    /\ RunIdle

\* the matrix the last tool call returned (the supplied one before any call)
tool_matrix ==
    IF Returned(1) \in DOMAIN matrix_heap THEN matrix_heap[Returned(1)] ELSE adj_matrix

\* adj = tools.downdate_network(adj, edge, directed)
CallDowndate ==
    /\ Len(tool_ops) < MaxOps
    /\ ~rank_call.called /\ ~measure_call.called
    /\ \E edge \in DOMAIN adj_matrix :
         /\ matrix_heap' = (Returned(1) :> downdate_network(tool_matrix, edge, directed)) @@ matrix_heap
         /\ tool_ops' = Append(tool_ops, <<"downdate", edge>>)
    /\ UNCHANGED <<directed, rank_call, measure_call, scale_call, sens_call, line_call, ccvVars, runVars>>

\* adj = tools.update_network(adj, edge, directed)
CallUpdate ==
    /\ Len(tool_ops) < MaxOps
    /\ ~rank_call.called /\ ~measure_call.called
    /\ \E edge \in DOMAIN adj_matrix :
         /\ matrix_heap' = (Returned(1) :> update_network(tool_matrix, edge, directed)) @@ matrix_heap
         /\ tool_ops' = Append(tool_ops, <<"update", edge>>)
    /\ UNCHANGED <<directed, rank_call, measure_call, scale_call, sens_call, line_call, ccvVars, runVars>>

\* tools.rank_edges(data, edge_list, name) on a score vector aligned with the
\* existing-edge list of the supplied matrix
CallRankEdges ==
    /\ tool_ops = <<>>
    /\ ~rank_call.called /\ ~measure_call.called
    /\ LET edge_list == generate_edge_list(adj_matrix, directed)
       IN \E data \in [1 .. Len(edge_list) -> ScoreSet] :
            \E r \in rank_edges(data, edge_list) :
               rank_call' = [called |-> TRUE, data |-> data, edge_list |-> edge_list,
                             ranked_data |-> r.ranked_data,
                             ranked_edge_list |-> r.ranked_edge_list]
    /\ UNCHANGED <<matrix_heap, directed, tool_ops, measure_call, scale_call, sens_call, line_call, ccvVars, runVars>>

\* ecm.<measure m>(adj_matrix, directed)
CallMeasure ==
    /\ tool_ops = <<>>
    /\ ~rank_call.called /\ ~measure_call.called
    /\ \E m \in Measures :
         \E raw \in RawScores(m, adj_matrix, directed) :
            LET r == MeasureCall(m, adj_matrix, directed, raw)
            IN measure_call' =
                 [called |-> TRUE, measure |-> m, raw |-> raw,
                  scores_d |-> r.scores_d, edges_d |-> r.edges_d,
                  scores_u |-> IF m = LineGraphMeasure THEN <<>> ELSE r.scores_u,
                  edges_u |-> IF m = LineGraphMeasure THEN <<>> ELSE r.edges_u]
    /\ UNCHANGED <<matrix_heap, directed, tool_ops, rank_call, scale_call, sens_call, line_call, ccvVars, runVars>>

NextTools == CallDowndate \/ CallUpdate \/ CallRankEdges \/ CallMeasure

SpecTools == InitTools /\ [][NextTools]_vars

\* ------------------------------------------------------------------------
\* Properties of the tools (checked under SpecTools)
\* ------------------------------------------------------------------------
Mirror(edge) == <<edge[2], edge[1]>>

\* two calls were made, one downdate and one update, on the same edge
RoundTrip ==
    /\ Len(tool_ops) = 2
    /\ tool_ops[1][2] = tool_ops[2][2]
    /\ tool_ops[1][1] # tool_ops[2][1]

RoundTripEdge == tool_ops[1][2]

\* entry (i,j), and the mirrored entry when undirected, are as supplied
Restored(edge) ==
    /\ tool_matrix[edge] = adj_matrix[edge]
    /\ ~directed => tool_matrix[Mirror(edge)] = adj_matrix[Mirror(edge)]

\* C2 as stated: downdate-then-update and update-then-downdate on the same
\* edge restore entry (i,j) and its mirror, for every matrix and every edge
C2_RoundTripAlwaysRestores == RoundTrip => Restored(RoundTripEdge)

\* C2 amended: update-then-downdate always restores the entry and its mirror;
\* downdate-then-update restores them when the supplied weight of (i,j) is at
\* least 1 (a smaller weight is clamped to 0 and comes back as 1)
C2_RoundTripRestores ==
    RoundTrip =>
       \/ tool_ops[1][1] = "downdate" /\ adj_matrix[RoundTripEdge] < Unit
       \/ Restored(RoundTripEdge)

\* C2 witness: an undirected downdate-then-update of an off-diagonal edge of
\* weight at least 1, and the clamped case
C2_Witness ==
    /\ RoundTrip
    /\ tool_ops[1][1] = "downdate"
    /\ ~directed
    /\ RoundTripEdge[1] # RoundTripEdge[2]
    /\ adj_matrix[RoundTripEdge] >= Unit
    /\ adj_matrix[Mirror(RoundTripEdge)] > 0

\* the number of self-loops of the supplied matrix
SelfLoops == Cardinality({i \in 0 .. (Dim(adj_matrix) - 1) : adj_matrix[<<i, i>>] # 0})

OffDiagonalCount ==
    LET n == Dim(adj_matrix) IN IF directed THEN n * n - n ELSE (n * (n - 1)) \div 2

ReturnsBothLists == measure_call.called /\ measure_call.measure # LineGraphMeasure

\* C4 as stated: the two edge lists of a measure have n*n - n entries together
\* when directed and n(n-1)/2 when undirected
C4_ListLengthsOffDiagonal ==
    ReturnsBothLists =>
       Len(measure_call.edges_d) + Len(measure_call.edges_u) = OffDiagonalCount

\* C4 amended: the two edge lists have n*n - n (directed) or n(n-1)/2
\* (undirected) entries together, plus one for every self-loop
C4_ListLengthsWithSelfLoops ==
    ReturnsBothLists =>
       Len(measure_call.edges_d) + Len(measure_call.edges_u) = OffDiagonalCount + SelfLoops

\* C4 witness: a measure was computed on a matrix with a self-loop and a
\* zero diagonal entry
C4_Witness ==
    /\ ReturnsBothLists
    /\ SelfLoops = 1
    /\ Len(measure_call.edges_u) > 0

Materialized(p) == directed \/ p[1] <= p[2]

NoRepeats(s) == Cardinality(Range(s)) = Len(s)

\* C5: the existing list is exactly the non-zero positions, the virtual list
\* exactly the zero off-diagonal positions (i <= j when undirected); they are
\* disjoint and without repeats, and no diagonal position is virtual
C5_EdgeListsPartition ==
    measure_call.called =>
       /\ Range(measure_call.edges_d) = {p \in DOMAIN adj_matrix : Materialized(p) /\ adj_matrix[p] # 0}
       /\ NoRepeats(measure_call.edges_d)
       /\ ReturnsBothLists =>
            /\ Range(measure_call.edges_u) =
                 {p \in DOMAIN adj_matrix : Materialized(p) /\ adj_matrix[p] = 0 /\ p[1] # p[2]}
            /\ NoRepeats(measure_call.edges_u)
            /\ Range(measure_call.edges_d) \cap Range(measure_call.edges_u) = {}
            /\ \A p \in Range(measure_call.edges_u) : p[1] # p[2]

\* C5 witness: an undirected measure on a matrix with an edge, a virtual edge
\* position below the diagonal that must stay out, and a zero diagonal entry
C5_Witness ==
    /\ ReturnsBothLists
    /\ ~directed
    /\ adj_matrix[<<0, 1>>] = 0 /\ adj_matrix[<<1, 0>>] = 0
    /\ adj_matrix[<<0, 0>>] # 0 /\ adj_matrix[<<1, 1>>] = 0

NonIncreasing(s) == \A a \in 1 .. (Len(s) - 1) : s[a] >= s[a + 1]

Count(s, v) == Cardinality({a \in DOMAIN s : s[a] = v})

IsPermutationOf(s, t) ==
    /\ Len(s) = Len(t)
    /\ \A v \in Range(s) \cup Range(t) : Count(s, v) = Count(t, v)

\* C6: the returned scores are non-increasing and a permutation of the input
\* scores, and the edge at each position is an input edge whose input score
\* is the returned score at that position
C6_RankEdgesSorted ==
    rank_call.called =>
       /\ NonIncreasing(rank_call.ranked_data)
       /\ IsPermutationOf(rank_call.ranked_data, rank_call.data)
       /\ Len(rank_call.ranked_edge_list) = Len(rank_call.edge_list)
       /\ \A a \in DOMAIN rank_call.ranked_edge_list :
            \E b \in DOMAIN rank_call.edge_list :
               /\ rank_call.edge_list[b] = rank_call.ranked_edge_list[a]
               /\ rank_call.data[b] = rank_call.ranked_data[a]

\* C6 witness: a ranking of at least two edges with different scores, the
\* better one second in the input
C6_Witness ==
    /\ rank_call.called
    /\ Len(rank_call.data) >= 2
    /\ rank_call.data[1] < rank_call.data[2]

IndexIn(s, v) == CHOOSE a \in DOMAIN s : s[a] = v

\* C7 as stated: of two edges with equal scores, the one with the smaller
\* input index comes first in the ranked list
C7_RankEdgesStable ==
    rank_call.called =>
       \A a, b \in DOMAIN rank_call.edge_list :
          (a < b /\ rank_call.data[a] = rank_call.data[b]) =>
             IndexIn(rank_call.ranked_edge_list, rank_call.edge_list[a])
               < IndexIn(rank_call.ranked_edge_list, rank_call.edge_list[b])

\* the edge that line-graph node a stands for
LineGraphNodeEdge(a) ==
    IF directed THEN incidence_and_exsurgence_edges(adj_matrix)[a]
    ELSE incidence_matrix_edges(adj_matrix)[a]

\* C8: each score vector is as long as its edge list, and the score at index
\* a is the raw score of the edge at index a
C8_ScoresAlignedWithEdges ==
    measure_call.called =>
       /\ Len(measure_call.scores_d) = Len(measure_call.edges_d)
       /\ Len(measure_call.scores_u) = Len(measure_call.edges_u)
       /\ IF measure_call.measure = LineGraphMeasure
          THEN \A a \in DOMAIN measure_call.edges_d :
                  /\ measure_call.scores_d[a] = measure_call.raw[a]
                  /\ measure_call.edges_d[a] = LineGraphNodeEdge(a)
          ELSE /\ \A a \in DOMAIN measure_call.edges_d :
                     measure_call.scores_d[a] = measure_call.raw[measure_call.edges_d[a]]
               /\ \A a \in DOMAIN measure_call.edges_u :
                     measure_call.scores_u[a] = measure_call.raw[measure_call.edges_u[a]]

\* C8 witness: an undirected measure on a matrix with a self-loop and an
\* edge, with raw scores that differ between positions
C8_Witness ==
    /\ ReturnsBothLists
    /\ ~directed
    /\ adj_matrix[<<0, 0>>] # 0 /\ adj_matrix[<<0, 1>>] # 0 /\ adj_matrix[<<1, 1>>] = 0
    /\ measure_call.raw[<<0, 0>>] # measure_call.raw[<<0, 1>>]
    /\ measure_call.raw[<<0, 1>>] # measure_call.raw[<<1, 0>>]

\* ------------------------------------------------------------------------
\* compute_centrality_values called on a supplied matrix
\* ------------------------------------------------------------------------
Selected(selection) == {m \in Measures : selection[m]}

InitCCV ==
    /\ \E A \in InputMatrices : matrix_heap = (CallerMatrix :> A)
    /\ directed \in BOOLEAN
    /\ measure_input \in [Measures -> BOOLEAN]
    /\ \/ SymmetryViolated(adj_matrix, directed)
       \/ Cardinality(Selected(measure_input)) <= MaxComputed
    /\ ccv_outcome = NotCalled
    /\ tool_ops = <<>>
    /\ rank_call = NoRankCall
    /\ measure_call = NoMeasureCall
    /\ scale_call = NoScaleCall
    /\ sens_call = NoSensCall
    /\ line_call = NoLineCall
    /\ RunIdle

\* na.compute_centrality_values(self._adj_matrix, measure_input, directed)
CallComputeCentralityValues ==
    /\ ccv_outcome.error = "not called"
    /\ ccv_outcome' \in compute_centrality_values(adj_matrix, measure_input, directed)
    /\ UNCHANGED <<matrix_heap, directed, measure_input, toolVars, runVars>>

NextCCV == CallComputeCentralityValues

SpecCCV == InitCCV /\ [][NextCCV]_vars

CCVCalled == ccv_outcome.error # "not called"

\* C1: called with directed = false on a matrix that is not symmetric, the
\* call raises the precondition error and returns no list, whatever the
\* selection of measures
C1_AsymmetricUndirectedRaises ==
    (CCVCalled /\ ~directed /\ ~issymmetric(adj_matrix)) =>
       /\ ccv_outcome.error = "ValueError"
       /\ ccv_outcome.edge_centralities_d = <<>>
       /\ ccv_outcome.edge_centralities_u = <<>>
       /\ ccv_outcome.ranked_edge_lists_d = <<>>
       /\ ccv_outcome.ranked_edge_lists_u = <<>>

\* C1 witness: the call raised with all five measures selected
C1_Witness ==
    /\ ccv_outcome.error = "ValueError"
    /\ Selected(measure_input) = Measures
    /\ ~directed /\ ~issymmetric(adj_matrix)

\* C1 witness of the other side: a call on a symmetric matrix returned lists
C1_ReturnsWhenSymmetric ==
    (CCVCalled /\ (directed \/ issymmetric(adj_matrix))) => ccv_outcome.error = "none"

\* ------------------------------------------------------------------------
\* compare_measures: the downdating / updating run
\* ------------------------------------------------------------------------
Restrict(f, S) == [x \in DOMAIN f \cap S |-> f[x]]

\* list.remove(v): drops the first occurrence of v
RECURSIVE Remove(_, _)
Remove(s, v) ==
    IF s = <<>> THEN <<>>
    ELSE IF Head(s) = v THEN Tail(s) ELSE <<Head(s)>> \o Remove(Tail(s), v)

\* copy.copy(ranked_edge_lists): the inner lists are the caller's
shallow_copy(outer, heap) == [refs |-> outer, heap |-> heap]

\* copy.deepcopy(ranked_edge_lists): a new outer list of new inner lists
deepcopy(outer, heap) ==
    [refs |-> [j \in DOMAIN outer |-> Copy(j)],
     heap |-> [r \in {Copy(j) : j \in DOMAIN outer} |-> heap[outer[r[2]]]]]

\* tools.total_network_communicability(adj_matrix): a value of the matrix
total_network_communicability(A) == [communicability_of |-> A]

\* [i for i, measure in enumerate(measure_input) if measure]
RECURSIVE SelectedFrom(_, _)
SelectedFrom(m, selection) ==
    IF m \notin Measures THEN <<>>
    ELSE (IF selection[m] THEN <<m>> ELSE <<>>) \o SelectedFrom(m + 1, selection)

\* new_measure_input = [0] * 5; new_measure_input[m] = True
new_measure_input(m) == [x \in Measures |-> x = m]

Orders == {"lowest", "highest", "other"}
RunSelections ==
    {sel \in [Measures -> BOOLEAN] :
        /\ Selected(sel) \subseteq 0 .. MaxMeasure
        /\ Cardinality(Selected(sel)) <= MaxSelected}

\* the total edge weight of a network, an undirected edge counted once
NetworkWeight(A, is_directed) == SumOver(A, Range(generate_edge_list(A, is_directed)))
RunNetworks ==
    {nw \in [adj_matrix : InputMatrices, directed : BOOLEAN] :
        /\ ~SymmetryViolated(nw.adj_matrix, nw.directed)
        /\ NetworkWeight(nw.adj_matrix, nw.directed) <= MaxRunSum}

\* the state when run_tasks calls compare_measures with the lists that
\* compute_centrality_values returned for the same matrix and selection
Init ==
    /\ \E nw \in RunNetworks :
         /\ matrix_heap = (CallerMatrix :> nw.adj_matrix)
         /\ directed = nw.directed
    /\ measure_input \in RunSelections
    /\ downdating \in BOOLEAN
    /\ \E o \in compute_centrality_values(adj_matrix, measure_input, directed) :
         LET lists == IF downdating THEN o.ranked_edge_lists_d ELSE o.ranked_edge_lists_u
         IN /\ ranked_edge_lists = [j \in DOMAIN lists |-> CallerList(j)]
            /\ ranked_by = (IF downdating THEN o.measures_d ELSE o.measures_u)
            /\ list_heap = [r \in {CallerList(j) : j \in DOMAIN lists} |-> lists[r[2]]]
    /\ selected_measures = SelectedFrom(0, measure_input)
    /\ downup_options_input \in
         [number_of_iterations : 0 .. MaxIter, greedy : BOOLEAN, order : Orders]
    /\ pc = "call"
    /\ error = "none"
    /\ NoLocals
    /\ ccv_outcome = NotCalled
    /\ tool_ops = <<>>
    /\ rank_call = NoRankCall
    /\ measure_call = NoMeasureCall
    /\ scale_call = NoScaleCall
    /\ sens_call = NoSensCall
    /\ line_call = NoLineCall

\* lines 219-222 without lines 233-234: the count is not halved
iteration_budget_unhalved ==
    LET requested == downup_options_input.number_of_iterations
    IN IF requested = 0 THEN MatrixSum(adj_matrix) \div Unit ELSE requested

\* lines 219-222 and 233-234: the number of iterations of the loop
iteration_budget ==
    LET requested == downup_options_input.number_of_iterations
        iterations == IF requested = 0 THEN MatrixSum(adj_matrix) \div Unit ELSE requested
    IN IF ~directed THEN iterations \div 2 ELSE iterations

\* lines 216-234: the copies, the iteration count and the initial trace
Setup ==
    /\ pc = "call"
    /\ LET copied == deepcopy(ranked_edge_lists, list_heap)
           tracked == DOMAIN copied.refs
       IN /\ ranked_edge_lists_copy' = copied.refs
          /\ list_heap' = copied.heap @@ list_heap
          /\ adj_matrices_modified' = [j \in tracked |-> Copy(j)]
          /\ matrix_heap' = [r \in {Copy(j) : j \in tracked} |-> adj_matrix] @@ matrix_heap
          /\ number_of_iterations' = iteration_budget
          /\ n_components' = [j \in tracked |-> n_components_of(adj_matrix, directed)]
          /\ iterations_disconnect' = [j \in tracked |-> <<>>]
          /\ total_network_communicabilities_list' =
               [j \in tracked |-> <<total_network_communicability(adj_matrix)>>]
    /\ modified_edges' = <<>>
    /\ loop_k' = 0
    /\ loop_i' = 1
    /\ pc' = "loop"
    /\ UNCHANGED <<directed, toolVars, ccvVars, argVars, error>>

\* the loop of line 237 is inside its body for the list number loop_i
InBody ==
    /\ pc = "loop"
    /\ loop_k < number_of_iterations
    /\ loop_i \in DOMAIN ranked_edge_lists_copy

order == downup_options_input.order
greedy == downup_options_input.greedy
ValidOrder == order \in {"lowest", "highest"}

\* the list that enumerate() hands to the body, and the matrix of the measure
ranked_edges == list_heap[ranked_edge_lists_copy[loop_i]]
adj_matrix_modified == matrix_heap[adj_matrices_modified[loop_i]]

\* lines 238-241 with the two ends of the list exchanged
edge_modified_swapped ==
    IF order = "lowest" THEN ranked_edges[1] ELSE ranked_edges[Len(ranked_edges)]

\* lines 238-241
edge_modified ==
    IF order = "lowest" THEN ranked_edges[Len(ranked_edges)] ELSE ranked_edges[1]

\* lines 247 and 260: the matrix the tool returns
modified_matrix ==
    IF downdating THEN downdate_network(adj_matrix_modified, edge_modified, directed)
    ELSE update_network(adj_matrix_modified, edge_modified, directed)

\* the removal without the test of line 249: the edge leaves the list in
\* every step
edge_removed_always == TRUE

\* the removal guarded by line 249 in the updating branch as well
edge_removed_when_zero == modified_matrix[edge_modified] = 0

\* lines 249-250 and 261: whether ranked_edges.remove(edge_modified) runs
edge_removed == downdating => modified_matrix[edge_modified] = 0

\* line 251 without its test: every removal of an edge is recorded
disconnected_on_every_removal == downdating /\ edge_removed

\* lines 251-253: the component count changed with the removal of the edge
disconnected ==
    /\ downdating
    /\ edge_removed
    /\ n_components[loop_i] # n_components_of(modified_matrix, directed)

\* lines 254-257 and 262-265: what the greedy re-ranking makes of the list.
\* The call may raise, and [2][0] / [3][0] raise on an empty list of lists.
NotGreedy == [error |-> "none", list |-> <<>>]
GreedyOutcomes ==
    IF ~greedy THEN {NotGreedy}
    ELSE {IF o.error # "none" THEN [error |-> o.error, list |-> <<>>]
          ELSE LET lists == IF downdating THEN o.ranked_edge_lists_d
                            ELSE o.ranked_edge_lists_u
               IN IF lists = <<>> THEN [error |-> "IndexError", list |-> <<>>]
                  ELSE [error |-> "none", list |-> lists[1]] :
            o \in compute_centrality_values(modified_matrix,
                                            new_measure_input(selected_measures[loop_i]),
                                            directed)}

\* lines 244-265 for the list number loop_i, the greedy re-ranking giving g
BodyEffects(g) ==
    LET mutated == [list_heap EXCEPT ![ranked_edge_lists_copy[loop_i]] =
                        IF edge_removed THEN Remove(@, edge_modified) ELSE @]
    IN /\ modified_edges' = Append(modified_edges, edge_modified)
       /\ adj_matrices_modified' = [adj_matrices_modified EXCEPT ![loop_i] = Returned(loop_i)]
       /\ matrix_heap' = Restrict((Returned(loop_i) :> modified_matrix) @@ matrix_heap,
                                  {CallerMatrix} \cup Range(adj_matrices_modified'))
       /\ iterations_disconnect' =
            IF disconnected THEN [iterations_disconnect EXCEPT ![loop_i] = Append(@, loop_k + 1)]
            ELSE iterations_disconnect
       /\ n_components' =
            IF disconnected
            THEN [n_components EXCEPT ![loop_i] = n_components_of(modified_matrix, directed)]
            ELSE n_components
       /\ IF greedy /\ g.error = "none"
          THEN /\ ranked_edge_lists_copy' =
                    [ranked_edge_lists_copy EXCEPT ![loop_i] = Returned(loop_i)]
               /\ list_heap' = Restrict((Returned(loop_i) :> g.list) @@ mutated,
                                        Range(ranked_edge_lists) \cup Range(ranked_edge_lists_copy'))
          ELSE /\ ranked_edge_lists_copy' = ranked_edge_lists_copy
               /\ list_heap' = mutated
       /\ IF g.error = "none"
          THEN /\ loop_i' = loop_i + 1
               /\ pc' = "loop"
               /\ error' = error
          ELSE /\ loop_i' = loop_i
               /\ pc' = "raised"
               /\ error' = g.error
       /\ UNCHANGED <<directed, toolVars, ccvVars, argVars, number_of_iterations,
                      total_network_communicabilities_list, loop_k>>

\* lines 246-257: one downdating step of one measure
DowndateStep ==
    /\ InBody /\ ValidOrder /\ ranked_edges # <<>>
    /\ downdating
    /\ \E g \in GreedyOutcomes : g.error = "none" /\ BodyEffects(g)

\* lines 259-265: one updating step of one measure
UpdateStep ==
    /\ InBody /\ ValidOrder /\ ranked_edges # <<>>
    /\ ~downdating
    /\ \E g \in GreedyOutcomes : g.error = "none" /\ BodyEffects(g)

\* lines 257 and 265 raise after the matrix and the list were modified
RaiseInGreedy ==
    /\ InBody /\ ValidOrder /\ ranked_edges # <<>>
    /\ \E g \in GreedyOutcomes : g.error # "none" /\ BodyEffects(g)

\* line 243
RaiseInvalidOrder ==
    /\ InBody /\ ~ValidOrder
    /\ pc' = "raised"
    /\ error' = "ValueError"
    /\ UNCHANGED <<matrix_heap, directed, toolVars, ccvVars, list_heap, argVars, localVars>>

\* the step of an exhausted list skipped instead of failing
SkipEmptyList ==
    /\ InBody /\ ValidOrder /\ ranked_edges = <<>>
    /\ loop_i' = loop_i + 1
    /\ UNCHANGED <<matrix_heap, directed, toolVars, ccvVars, list_heap, argVars, pc, error,
                   ranked_edge_lists_copy, adj_matrices_modified, number_of_iterations,
                   n_components, iterations_disconnect, total_network_communicabilities_list,
                   modified_edges, loop_k>>

\* lines 239 and 241 on a list that has run out of edges
RaiseEmptyList ==
    /\ InBody /\ ValidOrder /\ ranked_edges = <<>>
    /\ pc' = "raised"
    /\ error' = "IndexError"
    /\ UNCHANGED <<matrix_heap, directed, toolVars, ccvVars, list_heap, argVars, localVars>>

\* lines 267-276 with the value of the input matrix appended to every trace
AppendTraceOfInput ==
    /\ pc = "loop"
    /\ loop_k < number_of_iterations
    /\ loop_i = Len(ranked_edge_lists_copy) + 1
    /\ total_network_communicabilities_list' =
         [j \in DOMAIN total_network_communicabilities_list |->
            Append(total_network_communicabilities_list[j],
                   total_network_communicability(adj_matrix))]
    /\ loop_k' = loop_k + 1
    /\ loop_i' = 1
    /\ modified_edges' = IF loop_k + 1 < number_of_iterations THEN <<>> ELSE modified_edges
    /\ UNCHANGED <<matrix_heap, directed, toolVars, ccvVars, list_heap, argVars, pc, error,
                   ranked_edge_lists_copy, adj_matrices_modified, number_of_iterations,
                   n_components, iterations_disconnect>>

\* lines 267-277, and line 236 of the next iteration
AppendTrace ==
    /\ pc = "loop"
    /\ loop_k < number_of_iterations
    /\ loop_i = Len(ranked_edge_lists_copy) + 1
    /\ total_network_communicabilities_list' =
         [j \in DOMAIN total_network_communicabilities_list |->
            Append(total_network_communicabilities_list[j],
                   total_network_communicability(matrix_heap[adj_matrices_modified[j]]))]
    /\ loop_k' = loop_k + 1
    /\ loop_i' = 1
    /\ modified_edges' = IF loop_k + 1 < number_of_iterations THEN <<>> ELSE modified_edges
    /\ UNCHANGED <<matrix_heap, directed, toolVars, ccvVars, list_heap, argVars, pc, error,
                   ranked_edge_lists_copy, adj_matrices_modified, number_of_iterations,
                   n_components, iterations_disconnect>>

\* line 279
Return ==
    /\ pc = "loop"
    /\ loop_k >= number_of_iterations
    /\ pc' = "returned"
    /\ UNCHANGED <<matrix_heap, directed, toolVars, ccvVars, list_heap, argVars, error, localVars>>

Next ==
    \/ Setup
    \/ DowndateStep
    \/ UpdateStep
    \/ RaiseInGreedy
    \/ RaiseInvalidOrder
    \/ RaiseEmptyList
    \/ AppendTrace
    \/ Return

Spec == Init /\ [][Next]_vars

\* ------------------------------------------------------------------------
\* Claims about the run
\* ------------------------------------------------------------------------
Tracked == DOMAIN ranked_edge_lists_copy
ListOf(j) == list_heap[ranked_edge_lists_copy[j]]
MatrixOf(j) == matrix_heap[adj_matrices_modified[j]]
InRun == pc \in {"loop", "returned", "raised"}

\* C3: started on a matrix without negative entries, no downdating or
\* updating step of a run leaves a negative entry in a modified matrix
C3_WeightsNeverNegative ==
    \A r \in DOMAIN matrix_heap : \A p \in DOMAIN matrix_heap[r] : matrix_heap[r][p] >= 0

\* C9: after every step of a run each measure's ranked list holds only
\* edges that are non-zero in that measure's current matrix when downdating,
\* and only off-diagonal zero positions of it when updating
C9_ListsWithinTrackedEdges ==
    InRun =>
      \A j \in Tracked : \A e \in Range(ListOf(j)) :
         IF downdating THEN MatrixOf(j)[e] # 0
         ELSE MatrixOf(j)[e] = 0 /\ e[1] # e[2]

\* C9 witness: a greedy updating run that has modified a matrix and still
\* tracks an edge for it
C9_Witness ==
    /\ pc = "loop"
    /\ ~downdating /\ greedy
    /\ \E j \in Tracked : MatrixOf(j) # adj_matrix /\ ListOf(j) # <<>>

\* C10: no step of compare_measures changes the caller's matrix, the
\* caller's outer list or one of its ranked lists, and a step for the measure
\* number loop_i changes no other measure's matrix or list
C10_CopiesIndependent ==
    [][ /\ matrix_heap'[CallerMatrix] = matrix_heap[CallerMatrix]
        /\ ranked_edge_lists' = ranked_edge_lists
        /\ \A j \in DOMAIN ranked_edge_lists :
             list_heap'[ranked_edge_lists[j]] = list_heap[ranked_edge_lists[j]]
        /\ pc = "loop" =>
             \A j \in Tracked : j # loop_i =>
                /\ matrix_heap'[adj_matrices_modified'[j]] = MatrixOf(j)
                /\ list_heap'[ranked_edge_lists_copy'[j]] = ListOf(j) ]_vars

\* C10 witness: of two measures the first has taken its step, its matrix and
\* its list differ from the caller's, and the second still has the caller's
C10_Witness ==
    /\ pc = "loop"
    /\ Len(ranked_edge_lists_copy) = 2 /\ loop_i = 2
    /\ MatrixOf(1) # adj_matrix
    /\ ListOf(1) # list_heap[ranked_edge_lists[1]]
    /\ MatrixOf(2) = adj_matrix
    /\ ListOf(2) = list_heap[ranked_edge_lists[2]]

\* a step of the loop body has just appended to modified_edges
StepTaken == Len(modified_edges') = Len(modified_edges) + 1

\* C11: the edge a step modifies for a measure is the last element of that
\* measure's current ranked list when order is 'lowest' and the first when
\* order is 'highest', and it is the edge whose weight the step changes
C11_EdgeTakenFromOrderEnd ==
    [][ (pc = "loop" /\ StepTaken) =>
          LET taken == modified_edges'[Len(modified_edges')]
              current == ListOf(loop_i)
          IN /\ order = "lowest" => taken = current[Len(current)]
             /\ order = "highest" => taken = current[1]
             /\ matrix_heap'[adj_matrices_modified'[loop_i]][taken] # MatrixOf(loop_i)[taken] ]_vars

\* C11 witness: a run with order 'lowest' has modified the last of at least
\* two ranked edges of its first measure
C11_Witness ==
    /\ pc = "loop"
    /\ order = "lowest"
    /\ modified_edges # <<>>
    /\ Tracked # {}
    /\ LET supplied == list_heap[ranked_edge_lists[1]]
       IN /\ Len(supplied) >= 2
          /\ modified_edges[1] = supplied[Len(supplied)]
          /\ modified_edges[1] # supplied[1]

\* the trace compare_measures hands to the plot: empty unless it returned
TraceYielded == pc = "returned"

\* C12 as stated: a call with an order other than 'lowest' and 'highest'
\* never returns a trace and, once over, has raised the configuration error
C12_InvalidOrderAlwaysFails ==
    ~ValidOrder =>
       /\ ~TraceYielded
       /\ pc \in {"returned", "raised"} => error = "ValueError"

\* the N of the claim: the iteration count asked for, or with 0 the integer
\* part of the sum of all entries of the supplied matrix
RequestedSteps ==
    IF downup_options_input.number_of_iterations # 0
    THEN downup_options_input.number_of_iterations
    ELSE CHOOSE whole \in 0 .. MatrixSum(adj_matrix) :
            whole * Unit <= MatrixSum(adj_matrix) /\ MatrixSum(adj_matrix) < (whole + 1) * Unit

\* N steps when directed, floor(N/2) when undirected
ExpectedSteps ==
    IF directed THEN RequestedSteps
    ELSE CHOOSE half \in 0 .. RequestedSteps :
            2 * half <= RequestedSteps /\ RequestedSteps < 2 * (half + 1)

\* C13: a run that returns has executed exactly N steps (directed) or
\* floor(N/2) steps (undirected), each step adding one point to every trace;
\* no run executes more
C13_StepCount ==
    /\ InRun => loop_k <= ExpectedSteps
    /\ pc = "returned" =>
         /\ loop_k = ExpectedSteps
         /\ \A j \in Tracked : Len(total_network_communicabilities_list[j]) = 1 + ExpectedSteps

\* C13 witness: an undirected run with the automatic count has returned
\* after at least one step, the sum of the entries being no multiple of 2
C13_Witness ==
    /\ pc = "returned"
    /\ ~directed
    /\ Tracked # {}
    /\ loop_k >= 1
    /\ downup_options_input.number_of_iterations = 0
    /\ MatrixSum(adj_matrix) % (2 * Unit) # 0

\* ------------------------------------------------------------------------
\* compare_measures downdating the undirected 4-node cycle
\* ------------------------------------------------------------------------
CycleNodes == 0 .. 3
CycleArcs == {<<0, 1>>, <<1, 2>>, <<2, 3>>, <<3, 0>>}

\* the adjacency matrix of the cycle: weight 1 on every edge, both ways
Cycle ==
    [p \in CycleNodes \X CycleNodes |->
        IF p \in CycleArcs \/ <<p[2], p[1]>> \in CycleArcs THEN Unit ELSE 0]

\* the rankings rank_edges can return for the edges of the cycle, the
\* scores of a measure being any values
CycleRankings ==
    LET edge_list == generate_edge_list(Cycle, FALSE)
    IN UNION {{r.ranked_edge_list : r \in rank_edges(scores, edge_list)} :
                scores \in [DOMAIN edge_list -> ScoreSet]}

\* run_tasks calls compare_measures(adj_matrix, ranked_edge_lists_d,
\* selected_measures, [0, False, 'highest'], False) on the cycle
InitCycle ==
    /\ matrix_heap = (CallerMatrix :> Cycle)
    /\ directed = FALSE
    /\ measure_input \in RunSelections
    /\ Cardinality(Selected(measure_input)) <= MaxCycleSelected
    /\ downdating = TRUE
    /\ selected_measures = SelectedFrom(0, measure_input)
    /\ ranked_edge_lists = [j \in DOMAIN selected_measures |-> CallerList(j)]
    /\ ranked_by = selected_measures
    /\ list_heap \in [{CallerList(j) : j \in DOMAIN selected_measures} -> CycleRankings]
    /\ downup_options_input = [number_of_iterations |-> 0, greedy |-> FALSE, order |-> "highest"]
    /\ pc = "call"
    /\ error = "none"
    /\ NoLocals
    /\ ccv_outcome = NotCalled
    /\ tool_ops = <<>>
    /\ rank_call = NoRankCall
    /\ measure_call = NoMeasureCall
    /\ scale_call = NoScaleCall
    /\ sens_call = NoSensCall
    /\ line_call = NoLineCall

NextCycle ==
    \/ Setup
    \/ DowndateStep
    \/ AppendTrace
    \/ Return

SpecCycle == InitCycle /\ [][NextCycle]_vars

\* the edges of the supplied network that measure j's matrix has lost
RemovedEdges(j) ==
    {e \in Range(generate_edge_list(adj_matrix, directed)) :
        MatrixOf(j)[e] = 0 /\ MatrixOf(j)[Mirror(e)] = 0}

\* every step finds an edge to take: the run neither raises nor stops early
StepsNeverFail == InBody => ValidOrder /\ ranked_edges # <<>>

\* C14 as stated: the run on the cycle removes exactly 2 edges
C14_CycleLosesTwoEdges ==
    pc = "returned" => \A j \in Tracked : Cardinality(RemovedEdges(j)) = 2

\* C14 amended: the sum of the matrix entries is 8, so the run takes 4 steps
\* and removes all 4 edges of the cycle, for each tracked measure
C14_CycleLosesAllEdges ==
    /\ StepsNeverFail
    /\ pc = "returned" =>
         /\ loop_k = Cardinality(CycleArcs)
         /\ \A j \in Tracked :
               /\ Cardinality(RemovedEdges(j)) = Cardinality(CycleArcs)
               /\ ListOf(j) = <<>>

\* C14 witness: a run on the cycle with a tracked measure has returned
C14_Witness ==
    /\ pc = "returned"
    /\ adj_matrix = Cycle
    /\ Tracked # {}
    /\ loop_k > 2

\* C15: a step that finds its ranked list empty raises the index fault: the
\* run ends there, the step is not skipped, and a run that raised never
\* returns a trace
C15_EmptyListRaises ==
    [][ /\ (InBody /\ ValidOrder /\ ranked_edges = <<>>) =>
             /\ pc' = "raised"
             /\ error' = "IndexError"
             /\ loop_i' = loop_i /\ loop_k' = loop_k
             /\ matrix_heap' = matrix_heap /\ list_heap' = list_heap
        /\ pc = "raised" => pc' = "raised" ]_vars

\* C15 witness: an updating run asked for more steps than there are virtual
\* edges has raised the index fault after adding an edge
C15_Witness ==
    /\ pc = "raised"
    /\ error = "IndexError"
    /\ ~downdating /\ ~greedy
    /\ loop_k >= 1
    /\ \E j \in Tracked : ListOf(j) = <<>> /\ MatrixOf(j) # adj_matrix

\* C16 as stated: a run has one trace per selected measure, and the i-th
\* trace, reported under the name of the i-th selected measure, is driven by
\* the ranking of that measure
C16_OneTracePerSelectedMeasure ==
    InRun =>
       /\ Len(total_network_communicabilities_list) = Len(selected_measures)
       /\ \A j \in Tracked : ranked_by[j] = selected_measures[j]

\* ------------------------------------------------------------------------
\* scale_data called on a supplied vector
\* ------------------------------------------------------------------------
ScaleData == UNION {[1 .. n -> 0 .. MaxScore] : n \in 0 .. MaxLen}

InitScale ==
    /\ \E data \in ScaleData, new_min \in 0 .. 1, new_max \in 1 .. 2 :
         scale_call = [NoScaleCall EXCEPT !.data = data, !.new_min = new_min,
                                          !.new_max = new_max]
    /\ matrix_heap = <<>>
    /\ directed = FALSE
    /\ measure_input = NoSelection
    /\ ccv_outcome = NotCalled
    /\ tool_ops = <<>>
    /\ rank_call = NoRankCall
    /\ measure_call = NoMeasureCall
    /\ sens_call = NoSensCall
    /\ line_call = NoLineCall
    /\ RunIdle

\* tools.scale_data(data, new_min, new_max)
CallScaleData ==
    /\ ~scale_call.called
    /\ LET result == scale_data(scale_call.data, scale_call.new_min, scale_call.new_max)
       IN scale_call' = [scale_call EXCEPT !.called = TRUE, !.error = result.error,
                                           !.data_scaled = result.data_scaled]
    /\ UNCHANGED <<matrix_heap, directed, tool_ops, rank_call, measure_call, sens_call, line_call, ccvVars, runVars>>

NextScale == CallScaleData

SpecScale == InitScale /\ [][NextScale]_vars

\* scale_data(data, 0, 1) has returned for a vector with at least one entry
ScaledToUnitInterval ==
    /\ scale_call.called
    /\ scale_call.new_min = 0 /\ scale_call.new_max = 1
    /\ scale_call.data # <<>>

IsConstant(data) == \A a, b \in DOMAIN data : data[a] = data[b]

\* C17: scale_data(data, 0, 1) never divides by zero; on a non-constant vector
\* it returns 0 wherever data holds its minimum, 1 wherever it holds its
\* maximum and values in [0,1] elsewhere; on a constant vector it returns 0.5
\* at every position
C17_ScaleDataUnitInterval ==
    ScaledToUnitInterval =>
       LET data == scale_call.data
           scaled == scale_call.data_scaled
       IN /\ scale_call.error = "none"
          /\ DOMAIN scaled = DOMAIN data
          /\ \A k \in DOMAIN data :
               /\ scaled[k].divisor # 0
               /\ IF IsConstant(data)
                  THEN 2 * scaled[k].dividend = scaled[k].divisor
                  ELSE /\ 0 <= scaled[k].dividend /\ scaled[k].dividend <= scaled[k].divisor
                       /\ data[k] = min_value_of(data) => scaled[k].dividend = 0
                       /\ data[k] = max_value_of(data) => scaled[k].dividend = scaled[k].divisor

\* C17 witness: a vector with its minimum, its maximum and a value between
\* them was scaled to [0,1]
C17_Witness ==
    /\ ScaledToUnitInterval
    /\ Cardinality(Range(scale_call.data)) >= 3

\* the entries a step on edge e may change: e, and its mirror when undirected
Touched(e) == IF directed THEN {e} ELSE {e, Mirror(e)}

\* C18 as stated: a downdating step lowers the selected edge, and its mirror
\* when undirected, by exactly 1, changes no other entry, and removes the
\* edge from the ranked list exactly when its weight is 0 after the step
C18_DowndateLowersByOne ==
    [][ (pc = "loop" /\ downdating /\ StepTaken) =>
          LET taken == modified_edges'[Len(modified_edges')]
              before == MatrixOf(loop_i)
              after == matrix_heap'[adj_matrices_modified'[loop_i]]
              list_after == list_heap'[ranked_edge_lists_copy'[loop_i]]
          IN /\ \A p \in DOMAIN before :
                  after[p] = IF p \in Touched(taken) THEN before[p] - Unit ELSE before[p]
             /\ (taken \notin Range(list_after)) <=> (after[taken] = 0) ]_vars

\* C19: an updating step raises the selected virtual edge, and its mirror
\* when undirected, by exactly 1, changes no other entry, and the edge is no
\* longer in the tracked list after the step; in a non-greedy run the list
\* only loses that edge and the edge had weight 0, so no step selects an
\* edge an earlier step of the same measure has raised
C19_UpdateRaisesByOne ==
    [][ (pc = "loop" /\ ~downdating /\ StepTaken) =>
          LET taken == modified_edges'[Len(modified_edges')]
              before == MatrixOf(loop_i)
              after == matrix_heap'[adj_matrices_modified'[loop_i]]
              list_before == ListOf(loop_i)
              list_after == list_heap'[ranked_edge_lists_copy'[loop_i]]
          IN /\ \A p \in DOMAIN before :
                  after[p] = IF p \in Touched(taken) THEN before[p] + Unit ELSE before[p]
             /\ taken \notin Range(list_after)
             /\ ~greedy =>
                  /\ before[taken] = 0
                  /\ list_after = Remove(list_before, taken)
                  /\ \A e \in Range(list_after) : after[e] = 0 ]_vars

\* the first iteration of an undirected non-greedy updating run is over:
\* the selected edge and its mirror hold weight 1 in the first measure's
\* matrix and the edge has left that measure's list
C19_Witness ==
    /\ pc = "loop"
    /\ ~downdating /\ ~greedy /\ ~directed
    /\ loop_k = 1
    /\ modified_edges # <<>>
    /\ LET taken == modified_edges[1]
       IN /\ MatrixOf(1)[taken] = Unit
          /\ MatrixOf(1)[Mirror(taken)] = Unit
          /\ taken \notin Range(ListOf(1))

\* the rankings compute_centrality_values can return for matrix A under the
\* single measure m: the existing-edge ranking when downdating, the
\* virtual-edge ranking when updating
FreshRankings(A, m) ==
    {IF downdating THEN o.ranked_edge_lists_d[1] ELSE o.ranked_edge_lists_u[1] :
        o \in {x \in compute_centrality_values(A, new_measure_input(m), directed) :
                 /\ x.error = "none"
                 /\ (IF downdating THEN x.ranked_edge_lists_d ELSE x.ranked_edge_lists_u) # <<>>}}

\* C20 as stated: in greedy mode every step of the i-th tracked list ends
\* with that list equal to a ranking freshly computed on the i-th updated
\* matrix under the measure that produced the i-th list initially
C20_GreedyListIsFreshRanking ==
    [][ (pc = "loop" /\ greedy /\ StepTaken) =>
          /\ error' = "none"
          /\ list_heap'[ranked_edge_lists_copy'[loop_i]] \in
               FreshRankings(matrix_heap'[adj_matrices_modified'[loop_i]], ranked_by[loop_i]) ]_vars

\* a sequence of numbers in strictly increasing order
StrictlyIncreasing(s) == \A a, b \in DOMAIN s : a < b => s[a] < s[b]

\* C21: in a downdating run the iteration index k is recorded for a measure
\* exactly when the component count of its matrix after step k differs from
\* the count before the step; the recorded indices are strictly increasing
\* and the tracked count is the count of the current matrix after every step
C21_DisconnectionEvents ==
    [][ (pc = "loop" /\ downdating /\ StepTaken) =>
          LET before == MatrixOf(loop_i)
              after == matrix_heap'[adj_matrices_modified'[loop_i]]
              events == iterations_disconnect[loop_i]
              events_after == iterations_disconnect'[loop_i]
              changed == n_components_of(after, directed) # n_components_of(before, directed)
          IN /\ events_after = IF changed THEN Append(events, loop_k + 1) ELSE events
             /\ (loop_k + 1 \in Range(events_after)) <=> changed
             /\ StrictlyIncreasing(events_after)
             /\ \A j \in Tracked :
                  n_components'[j] = n_components_of(matrix_heap'[adj_matrices_modified'[j]], directed) ]_vars

\* a downdating step has taken the last link between the two nodes: the
\* first measure's matrix has more components than the input matrix and the
\* iteration is in the measure's event list
C21_Witness ==
    /\ pc = "loop"
    /\ downdating
    /\ Tracked # {}
    /\ iterations_disconnect[1] # <<>>
    /\ n_components_of(MatrixOf(1), directed) > n_components_of(adj_matrix, directed)

\* C22: a measure's trace starts with the value of the unmodified input
\* matrix and has one value per finished iteration, so (number of steps + 1)
\* values when the run returns; a value is appended only when every tracked
\* measure has made its step of the iteration, and it is the value of that
\* measure's own matrix
C22_TracePerIteration ==
    [][ /\ InRun' =>
             \A j \in DOMAIN total_network_communicabilities_list' :
                /\ Len(total_network_communicabilities_list'[j]) = loop_k' + 1
                /\ total_network_communicabilities_list'[j][1] =
                     total_network_communicability(adj_matrix')
        /\ pc' = "returned" => loop_k' = number_of_iterations'
        /\ (pc = "loop"
            /\ total_network_communicabilities_list' # total_network_communicabilities_list) =>
             /\ Len(modified_edges) = Cardinality(Tracked)
             /\ \A j \in Tracked :
                  total_network_communicabilities_list'[j] =
                     Append(total_network_communicabilities_list[j],
                            total_network_communicability(MatrixOf(j))) ]_vars

\* a run of two iterations has returned: the first measure's trace holds
\* three values, the last one of a matrix that differs from the input
C22_Witness ==
    /\ pc = "returned"
    /\ number_of_iterations = 2
    /\ Tracked # {}
    /\ Len(total_network_communicabilities_list[1]) = 3
    /\ total_network_communicabilities_list[1][3] # total_network_communicabilities_list[1][1]
    /\ total_network_communicabilities_list[1][3] = total_network_communicability(MatrixOf(1))

\* ------------------------------------------------------------------------
\* The sensitivity measures step by step (SpecSens): one call of
\* total_network_sensitivity, perron_root_sensitivity or
\* perron_network_sensitivity on a matrix that passes the symmetry
\* precondition
\* ------------------------------------------------------------------------
InitSens ==
    /\ \E A \in InputMatrices, d \in BOOLEAN :
         /\ ~SymmetryViolated(A, d)
         /\ matrix_heap = (CallerMatrix :> A)
         /\ directed = d
    /\ measure_input = NoSelection
    /\ ccv_outcome = NotCalled
    /\ tool_ops = <<>>
    /\ rank_call = NoRankCall
    /\ measure_call = NoMeasureCall
    /\ scale_call = NoScaleCall
    /\ sens_call = NoSensCall
    /\ line_call = NoLineCall
    /\ RunIdle

\* the positions in the order of "for i in range(n): for j in range(n)"
LoopPositions == FlatPositions(Dim(adj_matrix))

\* the call up to the loop: A, and the score matrix before the loop (the
\* Perron root sensitivity has no loop, line 195 gives the whole matrix)
EnterSensitivity ==
    /\ ~sens_call.called
    /\ \E measure \in SensitivityMeasures :
         sens_call' =
            [NoSensCall EXCEPT
               !.called = TRUE,
               !.measure = measure,
               !.A = decomposed_matrix(measure, adj_matrix, directed),
               !.score_matrix = IF measure \in LoopMeasures THEN FullNaN(adj_matrix)
                                ELSE perron_root_sensitivity_matrix(adj_matrix),
               !.next = IF measure \in LoopMeasures THEN 1 ELSE Len(LoopPositions) + 1]
    /\ UNCHANGED <<matrix_heap, directed, tool_ops, rank_call, measure_call, scale_call,
                   line_call, ccvVars, runVars>>

\* one pass of the loop body
PerturbEntry ==
    /\ sens_call.called
    /\ sens_call.next <= Len(LoopPositions)
    /\ sens_call' =
         [sens_call EXCEPT
            !.score_matrix = perturb_entry(@, LoopPositions[sens_call.next], directed),
            !.next = @ + 1]
    /\ UNCHANGED <<matrix_heap, directed, tool_ops, rank_call, measure_call, scale_call,
                   line_call, ccvVars, runVars>>

\* the tail of the measure and its return
ReturnSensitivity ==
    /\ sens_call.called
    /\ sens_call.next = Len(LoopPositions) + 1
    /\ ~sens_call.returned
    /\ LET r == SplitSensitivity(adj_matrix, sens_call.A, directed, sens_call.score_matrix)
       IN sens_call' =
            [sens_call EXCEPT !.returned = TRUE,
                              !.scores_d = r.scores_d, !.scores_u = r.scores_u,
                              !.edges_d = r.edges_d, !.edges_u = r.edges_u]
    /\ UNCHANGED <<matrix_heap, directed, tool_ops, rank_call, measure_call, scale_call,
                   line_call, ccvVars, runVars>>

NextSens == EnterSensitivity \/ PerturbEntry \/ ReturnSensitivity

SpecSens == InitSens /\ [][NextSens]_vars

\* C23: the Perron measures decompose adj_matrix + delta in every entry
\* exactly when the network is not (strongly) connected and adj_matrix
\* itself otherwise, and the scores they return are split by the zero
\* pattern of adj_matrix: the existing-edge scores are those of the non-zero
\* entries, the virtual-edge scores those of the zero entries off the
\* diagonal
C23_RegularizedIffNotConnected ==
    (sens_call.called /\ sens_call.measure \in PerronMeasures) =>
       /\ \A p \in DOMAIN adj_matrix :
             /\ sens_call.A[p].weight = adj_matrix[p]
             /\ (sens_call.A[p].deltas = 1) <=> ~is_connected(adj_matrix, directed)
             /\ sens_call.A[p].deltas \in {0, 1}
       /\ sens_call.returned =>
             /\ sens_call.edges_d = generate_edge_list(adj_matrix, directed)
             /\ sens_call.edges_u =
                  generate_edge_list(adj_matrix_edge_list_updating(adj_matrix), directed)
             /\ Len(sens_call.scores_d) = Len(sens_call.edges_d)
             /\ Len(sens_call.scores_u) = Len(sens_call.edges_u)
             /\ \A e \in Range(sens_call.edges_d) : adj_matrix[e] # 0
             /\ \A e \in Range(sens_call.edges_u) : adj_matrix[e] = 0 /\ e[1] # e[2]

\* the Perron network sensitivity has returned on a network that is not
\* connected: the matrix was regularized, and a zero entry of adj_matrix is
\* among the virtual edges
C23_Witness ==
    /\ sens_call.returned
    /\ sens_call.measure = "perron_network_sensitivity"
    /\ ~is_connected(adj_matrix, directed)
    /\ sens_call.A[<<0, 1>>] = [weight |-> 0, deltas |-> 1]
    /\ <<0, 1>> \in Range(sens_call.edges_u)
    /\ sens_call.edges_d # <<>>

\* the k-th returned score is the score of the k-th returned edge: the entry
\* it was obtained for is that edge (or its mirror in an undirected network,
\* where the two entries are one edge)
ScoresOfTheirEdges(scores, edges) ==
    /\ Len(scores) = Len(edges)
    /\ \A k \in DOMAIN edges : scores[k].entry \in Touched(edges[k])

\* C24 as stated: the Perron network sensitivity returned for an edge (i,j),
\* existing or virtual, is the finite difference obtained by perturbing
\* entry (i,j), in directed networks with i # j as well
C24_ScoreOfPerturbedEntry ==
    (sens_call.returned /\ sens_call.measure = "perron_network_sensitivity") =>
       /\ ScoresOfTheirEdges(sens_call.scores_d, sens_call.edges_d)
       /\ ScoresOfTheirEdges(sens_call.scores_u, sens_call.edges_u)

\* C25 as stated: every score of a measure that forms its scores in the loop
\* (total network sensitivity, Perron network sensitivity) carries the
\* factor 2 when the network is undirected and the factor 1 when directed
C25_FactorTwoWhenUndirected ==
    (sens_call.returned /\ sens_call.measure \in LoopMeasures) =>
       \A v \in Range(sens_call.scores_d) \cup Range(sens_call.scores_u) :
          v.factor = IF directed THEN 1 ELSE 2

\* ------------------------------------------------------------------------
\* The line-graph constructions (SpecLine): one call of
\* line_graph_adj_matrix (undirected) or line_graph_adj_matrix_directed on
\* a network of three nodes, as edge_line_graph_centrality makes it
\* ------------------------------------------------------------------------
LineNodes == 0 .. 2
LineMatrices == [LineNodes \X LineNodes -> 0 .. MaxLineWeight]

InitLine ==
    /\ \E A \in LineMatrices, d \in BOOLEAN :
         /\ ~SymmetryViolated(A, d)
         /\ matrix_heap = (CallerMatrix :> A)
         /\ directed = d
    /\ measure_input = NoSelection
    /\ ccv_outcome = NotCalled
    /\ tool_ops = <<>>
    /\ rank_call = NoRankCall
    /\ measure_call = NoMeasureCall
    /\ scale_call = NoScaleCall
    /\ sens_call = NoSensCall
    /\ line_call = NoLineCall
    /\ RunIdle

\* lg.line_graph_adj_matrix(adj_matrix)
CallLineGraph ==
    /\ ~line_call.called
    /\ ~directed
    /\ line_call' = [called |-> TRUE,
                     edges |-> incidence_matrix_edges(adj_matrix),
                     E |-> line_graph_adj_matrix(adj_matrix)]
    /\ UNCHANGED <<matrix_heap, directed, tool_ops, rank_call, measure_call, scale_call,
                   sens_call, ccvVars, runVars>>

\* lg.line_graph_adj_matrix_directed(adj_matrix)
CallLineGraphDirected ==
    /\ ~line_call.called
    /\ directed
    /\ line_call' = [called |-> TRUE,
                     edges |-> incidence_and_exsurgence_edges(adj_matrix),
                     E |-> line_graph_adj_matrix_directed(adj_matrix)]
    /\ UNCHANGED <<matrix_heap, directed, tool_ops, rank_call, measure_call, scale_call,
                   sens_call, ccvVars, runVars>>

NextLine == CallLineGraph \/ CallLineGraphDirected

SpecLine == InitLine /\ [][NextLine]_vars

\* the two edges have an end node in common
ShareEndpoint(e, f) == {e[1], e[2]} \cap {f[1], f[2]} # {}

\* the entry is sqrt(weight(e) * weight(f)), once
IsGeometricMean(entry, e, f) ==
    /\ entry.terms = 1
    /\ entry.radicand = adj_matrix[e] * adj_matrix[f]

\* C26: in the undirected line-graph matrix the entry of two distinct edges
\* is non-zero exactly when they share an end node and is then
\* sqrt(weight(e) * weight(f)); every diagonal entry is 0; node k is the
\* k-th edge of the upper-triangular edge list
C26_LineGraphUndirected ==
    (line_call.called /\ ~directed) =>
       /\ line_call.edges = generate_edge_list(adj_matrix, FALSE)
       /\ DOMAIN line_call.E = (DOMAIN line_call.edges) \X (DOMAIN line_call.edges)
       /\ \A c \in DOMAIN line_call.E :
             LET e == line_call.edges[c[1]]
                 f == line_call.edges[c[2]]
             IN IF c[1] = c[2] THEN line_call.E[c] = ZeroEntry
                ELSE /\ (line_call.E[c] # ZeroEntry) <=> ShareEndpoint(e, f)
                     /\ ShareEndpoint(e, f) => IsGeometricMean(line_call.E[c], e, f)

\* the line graph of an undirected network with four edges was built: two
\* of its edges share no node, and two edges of different weight share one
C26_Witness ==
    /\ line_call.called /\ ~directed
    /\ Len(line_call.edges) = 4
    /\ \E c \in DOMAIN line_call.E : c[1] # c[2] /\ line_call.E[c] = ZeroEntry
    /\ \E c \in DOMAIN line_call.E : line_call.E[c].radicand = 2

\* C27 as stated: in the directed line-graph matrix entry (e,f) is non-zero
\* exactly when the head node of e is the tail node of f, and every
\* diagonal entry is 0, for every directed matrix
C27_LineGraphDirected ==
    (line_call.called /\ directed) =>
       \A c \in DOMAIN line_call.E :
          LET e == line_call.edges[c[1]]
              f == line_call.edges[c[2]]
          IN /\ (line_call.E[c] # ZeroEntry) <=> (e[2] = f[1])
             /\ c[1] = c[2] => line_call.E[c] = ZeroEntry

\* C27, amended: entry (e,f) of the directed line-graph matrix is non-zero
\* exactly when the head node of e is the tail node of f, and is then
\* sqrt(weight(e) * weight(f)); a diagonal entry (e,e) is 0 exactly when e
\* is no self-loop, so the diagonal is 0 for matrices without self-loops
C27_LineGraphDirectedLoops ==
    (line_call.called /\ directed) =>
       /\ line_call.edges = generate_edge_list(adj_matrix, TRUE)
       /\ \A c \in DOMAIN line_call.E :
             LET e == line_call.edges[c[1]]
                 f == line_call.edges[c[2]]
             IN /\ (line_call.E[c] # ZeroEntry) <=> (e[2] = f[1])
                /\ (e[2] = f[1]) => IsGeometricMean(line_call.E[c], e, f)
                /\ c[1] = c[2] => ((line_call.E[c] = ZeroEntry) <=> (e[1] # e[2]))

\* the line graph of a directed network with a self-loop was built: the
\* diagonal entry of the self-loop is not 0, that of another arc is 0, and
\* an arc is followed by an arc that does not lead back to it
C27_Witness ==
    /\ line_call.called /\ directed
    /\ \E c \in DOMAIN line_call.E :
          c[1] = c[2] /\ line_call.E[c] # ZeroEntry
    /\ \E c \in DOMAIN line_call.E :
          c[1] = c[2] /\ line_call.E[c] = ZeroEntry
    /\ \E c \in DOMAIN line_call.E :
          /\ c[1] # c[2]
          /\ line_call.E[c] # ZeroEntry
          /\ line_call.E[<<c[2], c[1]>>] = ZeroEntry

\* ------------------------------------------------------------------------
\* Downdating to the end (SpecAuto): compare_measures on a network of two
\* nodes with whole-number weights and no self-loops, downdating with
\* number_of_iterations = 0, so that line 220 derives the count from the
\* sum of the matrix
\* ------------------------------------------------------------------------
AutoMatrices ==
    {A \in [Pos -> {w * Unit : w \in 0 .. MaxAutoWeight}] :
        \A v \in Nodes : A[<<v, v>>] = 0}

AutoNetworks ==
    {nw \in [adj_matrix : AutoMatrices, directed : BOOLEAN] :
        /\ ~SymmetryViolated(nw.adj_matrix, nw.directed)
        /\ NetworkWeight(nw.adj_matrix, nw.directed) <= MaxAutoWeight * Unit}

InitAuto ==
    /\ \E nw \in AutoNetworks :
         /\ matrix_heap = (CallerMatrix :> nw.adj_matrix)
         /\ directed = nw.directed
    /\ measure_input \in RunSelections
    /\ Cardinality(Selected(measure_input)) <= MaxAutoSelected
    /\ downdating = TRUE
    /\ \E o \in compute_centrality_values(adj_matrix, measure_input, directed) :
         /\ ranked_edge_lists = [j \in DOMAIN o.ranked_edge_lists_d |-> CallerList(j)]
         /\ ranked_by = o.measures_d
         /\ list_heap = [r \in {CallerList(j) : j \in DOMAIN o.ranked_edge_lists_d} |->
                           o.ranked_edge_lists_d[r[2]]]
    /\ selected_measures = SelectedFrom(0, measure_input)
    /\ downup_options_input \in
         [number_of_iterations : {0}, greedy : BOOLEAN, order : {"lowest", "highest"}]
    /\ pc = "call"
    /\ error = "none"
    /\ NoLocals
    /\ ccv_outcome = NotCalled
    /\ tool_ops = <<>>
    /\ rank_call = NoRankCall
    /\ measure_call = NoMeasureCall
    /\ scale_call = NoScaleCall
    /\ sens_call = NoSensCall
    /\ line_call = NoLineCall

NextAuto ==
    \/ Setup
    \/ DowndateStep
    \/ AppendTrace
    \/ Return

SpecAuto == InitAuto /\ [][NextAuto]_vars

\* no step of the loop body can raise: the order is valid, the list holds an
\* edge, and a greedy re-ranking returns a list
NoStepCanRaise ==
    InBody => /\ ValidOrder
              /\ ranked_edges # <<>>
              /\ \A g \in GreedyOutcomes : g.error = "none"

\* C28: on a network with whole-number weights and no self-loops, a
\* downdating run with number_of_iterations = 0 never takes from an empty
\* list, lowers the total edge weight of the measure's matrix by exactly 1
\* in every step, and returns with every entry of every measure's matrix 0
\* and every tracked list empty
C28_DowndatesToTheEnd ==
    [][ /\ NoStepCanRaise'
        /\ error' = "none"
        /\ StepTaken =>
             NetworkWeight(matrix_heap'[adj_matrices_modified'[loop_i]], directed)
               = NetworkWeight(MatrixOf(loop_i), directed) - Unit
        /\ pc' = "returned" =>
             \A j \in DOMAIN ranked_edge_lists_copy' :
                /\ \A p \in DOMAIN adj_matrix :
                      matrix_heap'[adj_matrices_modified'[j]][p] = 0
                /\ list_heap'[ranked_edge_lists_copy'[j]] = <<>> ]_vars

\* a run on a network of total weight 3 has returned after three steps: the
\* measure's matrix has no edge left and its list is empty
C28_Witness ==
    /\ pc = "returned"
    /\ Tracked # {}
    /\ loop_k = 3
    /\ NetworkWeight(adj_matrix, directed) = 3 * Unit
    /\ \A p \in DOMAIN adj_matrix : MatrixOf(1)[p] = 0
    /\ ListOf(1) = <<>>

\* C29: in an undirected run started from a symmetric matrix every
\* measure's matrix is symmetric after every downdating or updating step,
\* and no greedy re-ranking fails the symmetry precondition of
\* compute_centrality_values
C29_MatricesStaySymmetric ==
    (InRun /\ ~directed) =>
       /\ \A j \in Tracked : issymmetric(MatrixOf(j))
       /\ error # "ValueError" \/ ~ValidOrder
       /\ (InBody /\ ValidOrder /\ ranked_edges # <<>>) =>
             ~SymmetryViolated(modified_matrix, directed)

\* a greedy undirected run has made a downdating step that changed two
\* entries of the measure's matrix, and the re-ranking returned a list
C29_Witness ==
    /\ pc = "loop"
    /\ ~directed /\ greedy
    /\ modified_edges # <<>>
    /\ error = "none"
    /\ Tracked # {}
    /\ MatrixOf(1)[<<0, 1>>] # adj_matrix[<<0, 1>>]
    /\ MatrixOf(1)[<<1, 0>>] = MatrixOf(1)[<<0, 1>>]

\* the sequence in the opposite order
Reverse(s) == [k \in DOMAIN s |-> s[Len(s) + 1 - k]]

\* a list in the order in which the run takes its edges: from the front
\* for 'highest', from the back for 'lowest'
InTakingOrder(s) == IF order = "highest" THEN s ELSE Reverse(s)

\* C30: in a non-greedy downdating run the step takes the first edge (in
\* taking order) of the initial ranked list that has not been lowered to 0:
\* the edges before it are the ones taken so far, in that order, and all are
\* 0 now; the edge stays first in the list, and so is taken again by the
\* next step, exactly when its weight is not 0 after the step
C30_EdgesTakenInRankOrder ==
    [][ (pc = "loop" /\ downdating /\ ~greedy /\ StepTaken) =>
          LET initial == InTakingOrder(list_heap[ranked_edge_lists[loop_i]])
              current == InTakingOrder(ListOf(loop_i))
              left == InTakingOrder(list_heap'[ranked_edge_lists_copy'[loop_i]])
              taken == modified_edges'[Len(modified_edges')]
              before == MatrixOf(loop_i)
              after == matrix_heap'[adj_matrices_modified'[loop_i]]
              done == Len(initial) - Len(current)
          IN /\ done >= 0
             /\ current = SubSeq(initial, done + 1, Len(initial))
             /\ taken = initial[done + 1]
             /\ \A k \in 1 .. done : before[initial[k]] = 0 /\ after[initial[k]] = 0
             /\ \A k \in (done + 2) .. Len(initial) :
                   after[initial[k]] = adj_matrix[initial[k]]
             /\ left = IF after[taken] = 0 THEN Tail(current) ELSE current ]_vars

\* the second iteration of a non-greedy directed downdating run is over:
\* its step took the edge that the first step had taken and lowered to a
\* weight that was not 0, and the edge is 0 now and has left the list
C30_Witness ==
    /\ pc = "loop"
    /\ downdating /\ ~greedy /\ directed
    /\ loop_k = 2
    /\ Tracked # {}
    /\ modified_edges # <<>>
    /\ LET initial == InTakingOrder(list_heap[ranked_edge_lists[1]])
       IN /\ Len(initial) >= 1
          /\ modified_edges[1] = initial[1]
          /\ adj_matrix[initial[1]] > Unit
          /\ MatrixOf(1)[initial[1]] = 0
          /\ initial[1] \notin Range(ListOf(1))

====
